---- MODULE Spec2Model ----
(***************************************************************************)
(* Order lifecycle and access-scoped queries of the food-ordering backend  *)
(* (src/src/routers/order.router.js, with the token issue of               *)
(* src/src/routers/user.router.js).                                        *)
(*                                                                         *)
(* The store is a sequence of order documents in insertion order; the id   *)
(* of a document is its position, and createdAt is the creation sequence   *)
(* number (two orders are never created at the same instant).  Every       *)
(* request action is one HTTP request handled to completion; `last` holds  *)
(* that request, the store before it and the response the client received, *)
(* until the exchange ends (EndRequest).                                   *)
(* Order ids given to the routes are well-formed ObjectIds (existing or    *)
(* not); the store itself does not fail.                                   *)
(***************************************************************************)
EXTENDS Integers, Sequences, FiniteSets, TLC

VARIABLES users, token, orders, last, foods, paying, accounts, registering

vars == <<users, token, orders, last, foods, paying, accounts, registering>>

(* ------------------------------ bounds --------------------------------- *)

MaxOrders == 2

MaxFoods == 2

UserIds == {"u1", "u2"}

(* The clients that send register requests, one request each at a time. *)
Clients == {"c1", "c2"}

(* The users whose administrator flag is set (and may be withdrawn). *)
RoleChangers == {"u1"}

(* ----------------------------- constants ------------------------------- *)

BAD_REQUEST == 400

UNAUTHORIZED == 401

NOT_FOUND == 404

OK == 200

INTERNAL_ERROR == 500

OrderStatus == [NEW |-> "NEW", PAID |-> "PAID", PAYED |-> "PAYED",
                FAILED |-> "FAILED"]

(* A JSON field that the request does not carry (JS undefined): falsy. *)
Absent == ""

Burger == [food |-> [id |-> 1, name |-> "burger", price |-> 5],
           quantity |-> 2, price |-> 10]

ItemLists == {<< >>, <<Burger>>}

BodyStatus == {Absent, "PAID"}

BodyUser == {Absent} \cup UserIds

FlagValues == {"true", "false", Absent}

PaymentIds == {"tok123"}

StatusParams == {Absent, "NEW", "PAID", "FAILED"}

(* Well-formed order ids: those of stored orders and one more. *)
OrderIds == 1..(MaxOrders + 1)

(* ------------------------------ helpers -------------------------------- *)

Truthy(v) == v = "true"

RECURSIVE SumPrices(_)
SumPrices(items) ==
    IF items = << >> THEN 0 ELSE Head(items).price + SumPrices(Tail(items))

NoOrder == [id |-> 0, user |-> Absent, items |-> << >>, totalPrice |-> 0,
            paymentId |-> Absent, status |-> Absent, createdAt |-> 0]

(* new OrderModel(doc): the schema default of status applies only when the *)
(* document given carries no status.                                       *)
OrderModel(doc, id, createdAt) ==
    [id |-> id,
     user |-> doc.user,
     items |-> doc.items,
     totalPrice |-> doc.totalPrice,
     paymentId |-> Absent,
     status |-> IF doc.status = Absent THEN OrderStatus.NEW ELSE doc.status,
     createdAt |-> createdAt]

NoReq == [op |-> "none", caller |-> Absent, tokenAdmin |-> FALSE, id |-> 0,
          param |-> Absent, isPaid |-> Absent, isExpired |-> Absent,
          items |-> << >>, bodyStatus |-> Absent, bodyUser |-> Absent,
          paymentId |-> Absent,
          code |-> 0, text |-> Absent, docs |-> << >>, sentId |-> 0,
          sends |-> 0, foodId |-> 0, email |-> Absent, taken |-> FALSE,
          before |-> << >>]

Request(op, caller) ==
    [NoReq EXCEPT !.op = op, !.caller = caller, !.tokenAdmin = token[caller],
                  !.before = orders]

(* The catalog is a sequence of food documents in insertion order; the id *)
(* of a document is its position, and a deleted document leaves its       *)
(* position behind (ids are not used again).                              *)
FoodDoc(id, name, price, tags) ==
    [id |-> id, name |-> name, price |-> price, tags |-> tags, deleted |-> FALSE]

(* The food the clients put in their carts is in the catalog. *)
SeededFood == FoodDoc(1, "burger", 5, <<"fast", "beef">>)

(* The handler of PUT /pay suspended at `await order.save()`: the caller, *)
(* the token it is about to record and the id of the document it loaded. *)
NoPay == [caller |-> Absent, paymentId |-> Absent, id |-> 0]

(* The handler of POST /register of a client, suspended between its      *)
(* lookup and its create: the email as sent, and whether a stored email   *)
(* equalled it ignoring case when the lookup ran.                         *)
NoRegister == [email |-> Absent, taken |-> FALSE]

(* No exchange is open: the last response has been delivered. *)
Idle == last = NoReq

(* ------------------------------- Init ---------------------------------- *)

Init ==
    /\ users = [u \in UserIds |-> [isAdmin |-> u \in RoleChangers]]
    /\ token = [u \in UserIds |-> users[u].isAdmin]
    /\ orders = << >>
    /\ last = NoReq
    /\ foods = <<SeededFood>>
    /\ paying = NoPay
    /\ accounts = << >>
    /\ registering = [c \in Clients |-> NoRegister]

(* ---------------------------- POST /create ----------------------------- *)

(* `sends` counts the calls of res.send made for the request; the client  *)
(* receives the first.  With an empty cart the 400 of line 91 is followed *)
(* by the save and by the res.send of line 95.                            *)

(* { ...order, user: req.user.id } *)
CreateDoc(body, caller) ==
    [items |-> body.items, totalPrice |-> body.totalPrice,
     status |-> body.status, user |-> caller]

CreateOrder(caller, body) ==
    /\ Idle
    /\ Len(orders) < MaxOrders
    /\ LET newOrder == OrderModel(CreateDoc(body, caller),
                                  Len(orders) + 1, Len(orders) + 1)
           req == [Request("create", caller) EXCEPT
                      !.items = body.items, !.bodyStatus = body.status,
                      !.bodyUser = body.user]
       IN  /\ orders' = Append(orders, newOrder)
           /\ last' = IF Len(body.items) <= 0
                      THEN [req EXCEPT !.sends = 2, !.code = BAD_REQUEST,
                                       !.text = "Cart Is Empty!"]
                      ELSE [req EXCEPT !.sends = 1, !.code = OK, !.docs = <<newOrder>>]
    /\ UNCHANGED <<accounts, registering, paying, foods, users, token>>

(* ------------------------------ PUT /pay ------------------------------- *)

(* getNewOrderForCurrentUser is neither defined nor imported in the module: *)
(* evaluating the call throws ReferenceError before the store is read; the  *)
(* async handler wrapper forwards the rejection to the error middleware.    *)
getNewOrderForCurrentUser(caller) == [threw |-> TRUE, doc |-> NoOrder]

(* Lines 131-139: the lookup, the 400 when it finds nothing, else the     *)
(* loaded document is modified in memory and the save is awaited.         *)
PayLookup(found, caller, paymentId) ==
    LET req == [Request("pay", caller) EXCEPT !.paymentId = paymentId]
    IN  IF found.threw
        THEN /\ last' = [req EXCEPT !.sends = 1, !.code = INTERNAL_ERROR]
             /\ UNCHANGED <<orders, paying>>
        ELSE IF found.doc = NoOrder
        THEN /\ last' = [req EXCEPT !.sends = 1, !.code = BAD_REQUEST,
                                    !.text = "Order Not Found!"]
             /\ UNCHANGED <<orders, paying>>
        ELSE /\ paying' = [caller |-> caller, paymentId |-> paymentId,
                           id |-> found.doc.id]
             /\ UNCHANGED <<orders, last>>

Pay(caller, paymentId) ==
    /\ Idle
    /\ paying = NoPay
    /\ PayLookup(getNewOrderForCurrentUser(caller), caller, paymentId)
    /\ UNCHANGED <<accounts, registering, foods, users, token>>

(* Lines 140-142: order.save() writes the modified paths (paymentId,      *)
(* status) of the loaded document by its id, then the id is sent.         *)
PaySave ==
    /\ Idle
    /\ paying # NoPay
    /\ orders' = [orders EXCEPT ![paying.id].paymentId = paying.paymentId,
                                ![paying.id].status = OrderStatus.PAYED]
    /\ last' = [Request("pay", paying.caller) EXCEPT
                   !.paymentId = paying.paymentId, !.sends = 1, !.code = OK,
                   !.sentId = paying.id]
    /\ paying' = NoPay
    /\ UNCHANGED <<accounts, registering, foods, users, token>>

(* The lookup as the design describes it: the caller's most recently      *)
(* created order in status NEW, or none.                                  *)
NewOrderForCurrentUser(caller) ==
    LET new == {i \in 1..Len(orders) :
                   orders[i].user = caller /\ orders[i].status = OrderStatus.NEW}
    IN  [threw |-> FALSE,
         doc |-> IF new = {} THEN NoOrder
                 ELSE orders[CHOOSE i \in new : \A j \in new : j <= i]]

PayWithLookup(caller, paymentId) ==
    /\ Idle
    /\ paying = NoPay
    /\ PayLookup(NewOrderForCurrentUser(caller), caller, paymentId)
    /\ UNCHANGED <<accounts, registering, foods, users, token>>

(* ------------------------- GET /track/:orderId ------------------------- *)

(* Faulty variant: the role is read from the token claims. *)
ResolveIsAdmin_FromToken(caller, tokenAdmin) == tokenAdmin

(* UserModel.findById(req.user.id).isAdmin *)
ResolveIsAdmin(caller, tokenAdmin) == users[caller].isAdmin

AnyValue == "*"

MatchesFilter(o, filter) ==
    /\ filter.id \in {0, o.id}
    /\ filter.user \in {AnyValue, o.user}
    /\ filter.status \in {AnyValue, o.status}

Find(filter) == {i \in 1..Len(orders) : MatchesFilter(orders[i], filter)}

(* Faulty variant: the owner constraint is left out of the filter. *)
TrackFilter_NoOwner(caller, tokenAdmin, orderId) ==
    [id |-> orderId, user |-> AnyValue, status |-> AnyValue]

TrackFilter(caller, tokenAdmin, orderId) ==
    [id |-> orderId,
     user |-> IF ~ResolveIsAdmin(caller, tokenAdmin) THEN caller ELSE AnyValue,
     status |-> AnyValue]

Track(caller, orderId) ==
    /\ Idle
    /\ LET found == Find(TrackFilter(caller, token[caller], orderId))
           req == [Request("track", caller) EXCEPT !.id = orderId]
       IN  last' = IF found = {}
                   THEN [req EXCEPT !.sends = 1, !.code = UNAUTHORIZED, !.text = "Unauthorized"]
                   ELSE [req EXCEPT !.sends = 1, !.code = OK,
                                    !.docs = <<orders[CHOOSE i \in found : TRUE]>>]
    /\ UNCHANGED <<accounts, registering, paying, foods, users, token, orders>>

(* ------------------------- GET /order/:orderId ------------------------- *)

(* The values the handler passes as an id: the path parameter (a string   *)
(* holding a well-formed ObjectId) or the request object.                 *)
IdString(id) == [kind |-> "string", id |-> id]

ReqObject == [kind |-> "request", id |-> 0]

(* Casting a query value for _id: an id string is kept, the request object *)
(* is no ObjectId and the query rejects with CastError.                    *)
CastsToObjectId(v) == v.kind = "string"

(* OrderModel.findById(orderId) *)
getOrder(v) ==
    IF ~CastsToObjectId(v) THEN [threw |-> TRUE, doc |-> NoOrder]
    ELSE IF v.id \in 1..Len(orders) THEN [threw |-> FALSE, doc |-> orders[v.id]]
    ELSE [threw |-> FALSE, doc |-> NoOrder]

(* order = await getOrder(req) *)
RetryArgument(orderId) == ReqObject

FetchOrder(caller, orderId) ==
    /\ Idle
    /\ LET first == getOrder(IdString(orderId))
           retry == getOrder(RetryArgument(orderId))
           req == [Request("fetch", caller) EXCEPT !.id = orderId]
       IN  last' =
             IF first.threw
             THEN [req EXCEPT !.sends = 1, !.code = INTERNAL_ERROR, !.text = "Internal Server Error"]
             ELSE IF first.doc # NoOrder
             THEN [req EXCEPT !.sends = 1, !.code = OK, !.docs = <<first.doc>>]
             ELSE IF retry.threw
             THEN [req EXCEPT !.sends = 1, !.code = INTERNAL_ERROR, !.text = "Internal Server Error"]
             ELSE IF retry.doc # NoOrder
             THEN [req EXCEPT !.sends = 1, !.code = OK, !.docs = <<retry.doc>>]
             ELSE [req EXCEPT !.sends = 1, !.code = BAD_REQUEST]
    /\ UNCHANGED <<accounts, registering, paying, foods, users, token, orders>>

(* --------------------------- PUT /:id/status --------------------------- *)

(* Faulty variant: the flags are tested in the other order. *)
NewStatus_PaidFirst(isPaid, isExpired) ==
    IF Truthy(isPaid) THEN OrderStatus.PAID
    ELSE IF Truthy(isExpired) THEN OrderStatus.FAILED
    ELSE Absent

NewStatus(isPaid, isExpired) ==
    IF Truthy(isExpired) THEN OrderStatus.FAILED
    ELSE IF Truthy(isPaid) THEN OrderStatus.PAID
    ELSE Absent

(* Faulty variant: the update is an upsert. *)
FindByIdAndUpdate_Upsert(id, newStatus) ==
    IF id \in 1..Len(orders)
    THEN [orders EXCEPT ![id].status = newStatus]
    ELSE Append(orders, [NoOrder EXCEPT !.id = Len(orders) + 1,
                                        !.status = newStatus,
                                        !.createdAt = Len(orders) + 1])

(* Faulty variant: the update document replaces the stored document. *)
FindByIdAndUpdate_Replace(id, newStatus) ==
    IF id \in 1..Len(orders)
    THEN [orders EXCEPT ![id] = [NoOrder EXCEPT !.id = id, !.status = newStatus]]
    ELSE orders

(* OrderModel.findByIdAndUpdate(id, { status: newStatus }, { new: true }) *)
FindByIdAndUpdate(id, newStatus) ==
    IF id \in 1..Len(orders)
    THEN [orders EXCEPT ![id].status = newStatus]
    ELSE orders

UpdateStatus(caller, id, isPaid, isExpired) ==
    /\ Idle
    /\ LET newStatus == NewStatus(isPaid, isExpired)
           req == [Request("status", caller) EXCEPT
                      !.id = id, !.isPaid = isPaid, !.isExpired = isExpired]
       IN  IF newStatus = Absent
           THEN /\ orders' = orders
                /\ last' = [req EXCEPT !.sends = 1, !.code = BAD_REQUEST,
                                       !.text = "Invalid status update"]
           ELSE /\ orders' = FindByIdAndUpdate(id, newStatus)
                /\ last' = IF id \in 1..Len(orders)
                           THEN [req EXCEPT !.sends = 1, !.code = OK, !.docs = <<orders'[id]>>]
                           ELSE [req EXCEPT !.sends = 1, !.code = NOT_FOUND,
                                            !.text = "Order not found"]
    /\ UNCHANGED <<accounts, registering, paying, foods, users, token>>

(* ---------------------------- GET /:status? ---------------------------- *)

ListFilter(caller, tokenAdmin, status) ==
    [id |-> 0,
     user |-> IF ~ResolveIsAdmin(caller, tokenAdmin) THEN caller ELSE AnyValue,
     status |-> IF status # Absent THEN status ELSE AnyValue]

(* Faulty variant: ascending sort. *)
Precedes_Ascending(a, b) == a.createdAt < b.createdAt

(* .sort('-createdAt') *)
Precedes(a, b) == a.createdAt > b.createdAt

RECURSIVE SortDocs(_)
SortDocs(ids) ==
    IF ids = {} THEN << >>
    ELSE LET first == CHOOSE i \in ids :
                         \A j \in ids \ {i} : Precedes(orders[i], orders[j])
         IN  <<orders[first]>> \o SortDocs(ids \ {first})

ListOrders(caller, status) ==
    /\ Idle
    /\ LET found == Find(ListFilter(caller, token[caller], status))
           req == [Request("list", caller) EXCEPT !.param = status]
       IN  last' = [req EXCEPT !.sends = 1, !.code = OK, !.docs = SortDocs(found)]
    /\ UNCHANGED <<accounts, registering, paying, foods, users, token, orders>>

(* ------------------------- food catalog routes ------------------------- *)

FoodNames == {"burger"}

FoodPrices == {5, 6}

(* tags as sent: a comma-separated string, given by its segments, or an   *)
(* array.                                                                 *)
TagInputs == {[kind |-> "string", parts |-> <<"fast", "beef">>],
              [kind |-> "array", parts |-> <<"fast", "beef">>]}

FoodIdInputs == 1..MaxFoods

(* tags.split ? tags.split(',') : tags *)
SplitTags(tags) == tags.parts

(* The admin middleware lets administrators through. *)
admin(caller) == token[caller]

(* The writes of FoodModel, as the two collections after the write: each  *)
(* is a write to the foods collection.                                    *)
FoodSave(body) ==
    [foods |-> Append(foods, FoodDoc(Len(foods) + 1, body.name, body.price,
                                     SplitTags(body.tags))),
     orders |-> orders]

Stored(id) == id \in 1..Len(foods) /\ ~foods[id].deleted

(* Faulty variant: the order items follow the catalog (a live reference). *)
FoodUpdateOne_Cascade(id, body) ==
    [foods |-> IF Stored(id)
               THEN [foods EXCEPT ![id].name = body.name, ![id].price = body.price,
                                  ![id].tags = SplitTags(body.tags)]
               ELSE foods,
     orders |-> [i \in 1..Len(orders) |->
                   [orders[i] EXCEPT !.items =
                      [k \in 1..Len(orders[i].items) |->
                         IF orders[i].items[k].food.id = id
                         THEN [orders[i].items[k] EXCEPT !.food.price = body.price]
                         ELSE orders[i].items[k]]]]]

(* FoodModel.updateOne({ _id: id }, { name, price, tags, ... }) *)
FoodUpdateOne(id, body) ==
    [foods |-> IF Stored(id)
               THEN [foods EXCEPT ![id].name = body.name, ![id].price = body.price,
                                  ![id].tags = SplitTags(body.tags)]
               ELSE foods,
     orders |-> orders]

(* FoodModel.deleteOne({ _id: foodId }) *)
FoodDeleteOne(id) ==
    [foods |-> IF Stored(id) THEN [foods EXCEPT ![id].deleted = TRUE] ELSE foods,
     orders |-> orders]

FoodRequest(op, caller, id) ==
    [Request(op, caller) EXCEPT !.foodId = id]

FoodWrite(req, caller, db) ==
    IF admin(caller)
    THEN /\ foods' = db.foods
         /\ orders' = db.orders
         /\ last' = [req EXCEPT !.sends = 1, !.code = OK]
    ELSE /\ UNCHANGED <<foods, orders>>
         /\ last' = [req EXCEPT !.sends = 1, !.code = UNAUTHORIZED]

CreateFood(caller, body) ==
    /\ Idle
    /\ Len(foods) < MaxFoods
    /\ FoodWrite(FoodRequest("foodCreate", caller, Len(foods) + 1), caller,
                 FoodSave(body))
    /\ UNCHANGED <<accounts, registering, paying, users, token>>

UpdateFood(caller, id, body) ==
    /\ Idle
    /\ FoodWrite(FoodRequest("foodUpdate", caller, id), caller,
                 FoodUpdateOne(id, body))
    /\ UNCHANGED <<accounts, registering, paying, users, token>>

DeleteFood(caller, id) ==
    /\ Idle
    /\ FoodWrite(FoodRequest("foodDelete", caller, id), caller, FoodDeleteOne(id))
    /\ UNCHANGED <<accounts, registering, paying, users, token>>

(* --------------------------- POST /register ---------------------------- *)

Emails == {"a@x.io", "A@x.io", "b@x.io"}

(* email.toLowerCase() *)
ToLowerCase(e) == IF e = "A@x.io" THEN "a@x.io" ELSE e

StoredEmails == {accounts[i].email : i \in 1..Len(accounts)}

(* UserModel.findOne({ email }): the stored value equals the value given. *)
FindUserByEmail(email) == email \in StoredEmails

(* The email path is unique in the collection: a create of a stored email *)
(* is rejected with a duplicate key error.                                *)
UserCreateThrows(doc) == doc.email \in StoredEmails

(* { name, email: email.toLowerCase(), password: hashedPassword, address } *)
NewUser(email) == [email |-> ToLowerCase(email), isAdmin |-> FALSE]

RegisterRequest(email, taken) ==
    [NoReq EXCEPT !.op = "register", !.email = email, !.taken = taken]

(* Lines 127-132: the lookup and the 400 when a user is found. *)
RegisterLookup(c, email) ==
    /\ Idle
    /\ registering[c] = NoRegister
    /\ LET taken == \E e \in StoredEmails : ToLowerCase(e) = ToLowerCase(email)
       IN  IF FindUserByEmail(email)
           THEN /\ last' = [RegisterRequest(email, taken) EXCEPT
                               !.sends = 1, !.code = BAD_REQUEST,
                               !.text = "User already exists, please login!"]
                /\ UNCHANGED registering
           ELSE /\ registering' = [registering EXCEPT
                                      ![c] = [email |-> email, taken |-> taken]]
                /\ UNCHANGED last
    /\ UNCHANGED <<accounts, paying, foods, users, token, orders>>

(* Lines 134-144: the hash, UserModel.create and the token response; a    *)
(* rejected create ends in the error middleware.                          *)
RegisterCreate(c) ==
    /\ Idle
    /\ registering[c] # NoRegister
    /\ LET doc == NewUser(registering[c].email)
           req == RegisterRequest(registering[c].email, registering[c].taken)
       IN  IF UserCreateThrows(doc)
           THEN /\ last' = [req EXCEPT !.sends = 1, !.code = INTERNAL_ERROR]
                /\ UNCHANGED accounts
           ELSE /\ accounts' = Append(accounts, doc)
                /\ last' = [req EXCEPT !.sends = 1, !.code = OK]
    /\ registering' = [registering EXCEPT ![c] = NoRegister]
    /\ UNCHANGED <<paying, foods, users, token, orders>>

(* -------------------- identity records and tokens ---------------------- *)

(* generateTokenResponse(user): the token carries the flag as stored when *)
(* it is signed.                                                          *)
generateTokenResponse(u) == users[u].isAdmin

Login(u) ==
    /\ Idle
    /\ token' = [token EXCEPT ![u] = generateTokenResponse(u)]
    /\ UNCHANGED <<accounts, registering, paying, foods, users, orders, last>>

(* The administrator flag of a stored user record is changed in the store *)
(* (no route of the routers writes it).                                   *)
SetAdmin(u, flag) ==
    /\ Idle
    /\ u \in RoleChangers
    /\ users[u].isAdmin # flag
    /\ users' = [users EXCEPT ![u].isAdmin = flag]
    /\ UNCHANGED <<accounts, registering, paying, foods, token, orders, last>>

(* The response is on the wire and the exchange is over. *)
EndRequest ==
    /\ ~Idle
    /\ last' = NoReq
    /\ UNCHANGED <<accounts, registering, paying, foods, users, token, orders>>

(* ------------------------------- Next ---------------------------------- *)

Next ==
    \/ \E caller \in UserIds, items \in ItemLists, st \in BodyStatus, bu \in BodyUser :
          CreateOrder(caller, [items |-> items, totalPrice |-> SumPrices(items),
                               status |-> st, user |-> bu])
    \/ \E caller \in UserIds, p \in PaymentIds : Pay(caller, p)
    \/ \E caller \in UserIds, id \in OrderIds : Track(caller, id)
    \/ \E caller \in UserIds, id \in OrderIds : FetchOrder(caller, id)
    \/ \E caller \in UserIds, id \in OrderIds, isPaid \in FlagValues,
          isExpired \in FlagValues : UpdateStatus(caller, id, isPaid, isExpired)
    \/ \E caller \in UserIds, status \in StatusParams : ListOrders(caller, status)
    \/ \E u \in UserIds : Login(u)
    \/ \E u \in UserIds, flag \in BOOLEAN : SetAdmin(u, flag)
    \/ EndRequest

Spec == Init /\ [][Next]_vars

(* The catalog routes together with the creation of orders. *)
NextCatalog ==
    \/ \E caller \in UserIds, items \in ItemLists, st \in BodyStatus, bu \in BodyUser :
          CreateOrder(caller, [items |-> items, totalPrice |-> SumPrices(items),
                               status |-> st, user |-> bu])
    \/ \E caller \in UserIds, n \in FoodNames, p \in FoodPrices, t \in TagInputs :
          CreateFood(caller, [name |-> n, price |-> p, tags |-> t])
    \/ \E caller \in UserIds, id \in FoodIdInputs, n \in FoodNames,
          p \in FoodPrices, t \in TagInputs :
          UpdateFood(caller, id, [name |-> n, price |-> p, tags |-> t])
    \/ \E caller \in UserIds, id \in FoodIdInputs : DeleteFood(caller, id)
    \/ EndRequest

SpecCatalog == Init /\ [][NextCatalog]_vars

(* The routes that write orders, with the lookup of PUT /pay in place:    *)
(* the handler of PUT /pay runs up to its save, other requests are served *)
(* meanwhile, then the save is applied.                                   *)
NextPayLookup ==
    \/ \E caller \in UserIds, items \in ItemLists, st \in BodyStatus, bu \in BodyUser :
          CreateOrder(caller, [items |-> items, totalPrice |-> SumPrices(items),
                               status |-> st, user |-> bu])
    \/ \E caller \in UserIds, p \in PaymentIds : PayWithLookup(caller, p)
    \/ PaySave
    \/ \E caller \in UserIds, id \in OrderIds, isPaid \in FlagValues,
          isExpired \in FlagValues : UpdateStatus(caller, id, isPaid, isExpired)
    \/ \E caller \in UserIds, status \in StatusParams : ListOrders(caller, status)
    \/ EndRequest

SpecPayLookup == Init /\ [][NextPayLookup]_vars

(* The registration route, its handlers interleaved at their awaits. *)
NextRegister ==
    \/ \E c \in Clients, email \in Emails : RegisterLookup(c, email)
    \/ \E c \in Clients : RegisterCreate(c)
    \/ EndRequest

SpecRegister == Init /\ [][NextRegister]_vars

(* ======================= properties of the routes ====================== *)

Ids(store) == 1..Len(store)

IsAdminNow(u) == users[u].isAdmin

NewOrdersOf(store, u) ==
    {i \in Ids(store) : store[i].user = u /\ store[i].status = "NEW"}

MostRecent(store, ids) ==
    CHOOSE i \in ids : \A j \in ids : store[j].createdAt <= store[i].createdAt

(* C1: every create-order request with a non-empty item list, whatever    *)
(* else its body carries, adds one order with status NEW owned by the     *)
(* authenticated caller, and returns it.                                  *)
C1_CreatedOrderIsNewAndOwned ==
    (last.op = "create" /\ last.items # << >>) =>
        /\ Len(orders) = Len(last.before) + 1
        /\ SubSeq(orders, 1, Len(last.before)) = last.before
        /\ orders[Len(orders)].status = "NEW"
        /\ orders[Len(orders)].user = last.caller
        /\ last.code = OK
        /\ last.docs = <<orders[Len(orders)]>>

(* C2: create order with an empty item list answers 400 'Cart Is Empty!'  *)
(* and adds no order; every stored order has a non-empty item list.       *)
C2_EmptyCartAddsNoOrder ==
    /\ (last.op = "create" /\ last.items = << >>) =>
           /\ last.code = BAD_REQUEST
           /\ last.text = "Cart Is Empty!"
           /\ orders = last.before
    /\ \A i \in Ids(orders) : orders[i].items # << >>

(* C3: when the caller owns a NEW order, record-payment marks exactly the *)
(* caller's most recently created NEW order PAID with the payment token,  *)
(* leaves every other order unchanged and answers with that order's id.   *)
C3_PayMarksMostRecentNewOrder ==
    (last.op = "pay" /\ NewOrdersOf(last.before, last.caller) # {}) =>
        LET k == MostRecent(last.before, NewOrdersOf(last.before, last.caller))
        IN  /\ orders = [last.before EXCEPT ![k].status = "PAID",
                                            ![k].paymentId = last.paymentId]
            /\ last.code = OK
            /\ last.sentId = k

(* C4: record-payment by a caller who owns no NEW order answers 400       *)
(* 'Order Not Found!' and leaves every order unchanged.                   *)
C4_PayWithoutNewOrderIsNotFound ==
    (last.op = "pay" /\ NewOrdersOf(last.before, last.caller) = {}) =>
        /\ last.code = BAD_REQUEST
        /\ last.text = "Order Not Found!"
        /\ orders = last.before

(* C5: for an existing order id, update-status sets the status to FAILED  *)
(* whenever isExpired is set (also with isPaid), to PAID when only isPaid *)
(* is set; nothing else of that order and no other order changes.         *)
C5_UpdateStatusSetsStatusOnly ==
    (/\ last.op = "status"
     /\ last.id \in Ids(last.before)
     /\ (last.isExpired = "true" \/ last.isPaid = "true")) =>
        /\ orders = [last.before EXCEPT ![last.id].status =
                        IF last.isExpired = "true" THEN "FAILED" ELSE "PAID"]
        /\ last.code = OK
        /\ last.docs = <<orders[last.id]>>

C5_Witness ==
    /\ last.op = "status"
    /\ last.id \in Ids(last.before)
    /\ last.isExpired = "true"
    /\ last.isPaid = "true"
    /\ Len(orders) > 1
    /\ last.before[last.id].status = "NEW"
    /\ orders[last.id].status = "FAILED"

C7_TrackOnlyOwnerOrAdmin ==
    (last.op = "track") =>
        LET allowed == /\ last.id \in Ids(orders)
                       /\ (IsAdminNow(last.caller)
                             \/ orders[last.id].user = last.caller)
        IN  /\ allowed => (last.code = OK /\ last.docs = <<orders[last.id]>>)
            /\ ~allowed => (last.code = UNAUTHORIZED /\ last.docs = << >>)

C7_Witness ==
    /\ last.op = "track"
    /\ ~IsAdminNow(last.caller)
    /\ last.id \in Ids(orders)
    /\ orders[last.id].user # last.caller
    /\ last.code = UNAUTHORIZED

(* C8: list returns exactly the stored orders that the caller may see     *)
(* (all for an administrator, the caller's own otherwise) and that have   *)
(* the status asked for, if one is, most recently created first.          *)
C8_ListIsScopedFilteredSorted ==
    (last.op = "list") =>
        LET want == {i \in Ids(orders) :
                        /\ (IsAdminNow(last.caller) \/ orders[i].user = last.caller)
                        /\ (last.param = Absent \/ orders[i].status = last.param)}
            docs == last.docs
        IN  /\ last.code = OK
            /\ Len(docs) = Cardinality(want)
            /\ {docs[k].id : k \in 1..Len(docs)} = want
            /\ \A k \in 1..Len(docs) : docs[k] = orders[docs[k].id]
            /\ \A k, l \in 1..Len(docs) :
                   k < l => docs[k].createdAt > docs[l].createdAt

C8_Witness ==
    /\ last.op = "list"
    /\ IsAdminNow(last.caller)
    /\ last.param = "FAILED"
    /\ Len(last.docs) = 1
    /\ last.docs[1].user # last.caller
    /\ Len(orders) = 2
    /\ \E i \in Ids(orders) : orders[i].status # "FAILED"

(* C9: list and track scope by the administrator flag of the stored user  *)
(* record at the time of the request, not by the flag in the token: with  *)
(* a token issued before the flag changed, the answer follows the new     *)
(* flag.                                                                  *)
C9_ScopeFollowsStoredFlag ==
    (last.op \in {"list", "track"} /\ last.tokenAdmin # IsAdminNow(last.caller)) =>
        IF IsAdminNow(last.caller)
        THEN /\ last.op = "track" /\ last.id \in Ids(orders) => last.code = OK
             /\ last.op = "list" /\ last.param = Absent => Len(last.docs) = Len(orders)
        ELSE \A k \in 1..Len(last.docs) : last.docs[k].user = last.caller

C9_Witness ==
    /\ last.op = "list"
    /\ last.tokenAdmin
    /\ ~IsAdminNow(last.caller)
    /\ \E i \in Ids(orders) : orders[i].user # last.caller
    /\ \E i \in Ids(orders) : orders[i].user = last.caller
    /\ Len(last.docs) = 1

(* C10: fetch order by id returns the order when it exists and answers    *)
(* 400 (not 500) when no order has that id.                               *)
C10_FetchMissingIsBadRequest ==
    (last.op = "fetch") =>
        IF last.id \in Ids(orders)
        THEN last.code = OK /\ last.docs = <<orders[last.id]>>
        ELSE last.code = BAD_REQUEST

(* C12: an order's status only progresses NEW -> PAID -> FAILED: a FAILED *)
(* order never changes status again and no order returns to NEW or moves  *)
(* from FAILED to PAID.                                                   *)
C12_StatusOnlyProgresses ==
    [][\A i \in Ids(orders) :
          i \in Ids(orders') =>
             /\ orders[i].status = "FAILED" => orders'[i].status = "FAILED"
             /\ orders'[i].status = "NEW" => orders[i].status = "NEW"]_vars

(* C13: the owner of an order never changes after creation, whatever      *)
(* request is made by whatever caller; no order is removed.               *)
C13_OwnerIsImmutable ==
    [][\A i \in Ids(orders) :
          i \in Ids(orders') /\ orders'[i].user = orders[i].user]_vars

C13_Witness ==
    /\ last.op = "status"
    /\ last.code = OK
    /\ orders[last.id].user # last.caller
    /\ orders[last.id].status # last.before[last.id].status
    /\ orders[last.id].user = last.before[last.id].user

(* C14: update-status is administrative: a request by a caller who is no  *)
(* administrator (by the stored flag and by the token) changes no order.  *)
C14_UpdateStatusNeedsAdministrator ==
    (/\ last.op = "status"
     /\ ~IsAdminNow(last.caller)
     /\ ~last.tokenAdmin) => orders = last.before

(* C18: every order route sends exactly one response per request, and a   *)
(* request answered with an error writes nothing to the store.            *)
C18_OneResponseNoWriteAfterError ==
    (last.op \in {"create", "pay", "track", "fetch", "status", "list"}) =>
        /\ last.sends = 1
        /\ last.code >= BAD_REQUEST => orders = last.before

(* C15: orders hold snapshots of food items: a step that creates, updates *)
(* or deletes a food item of the catalog leaves every order unchanged     *)
(* (line items, unit prices, total price, status, owner).                 *)
C15_FoodWritesLeaveOrders ==
    [][foods' # foods => orders' = orders]_vars

C15_Witness ==
    /\ last.op = "foodUpdate"
    /\ last.code = OK
    /\ Stored(last.foodId)
    /\ \E i \in Ids(orders) : \E k \in 1..Len(orders[i].items) :
          /\ orders[i].items[k].food.id = last.foodId
          /\ orders[i].items[k].food.price # foods[last.foodId].price
          /\ orders[i].items[k].price = 10
    /\ orders = last.before

C16_EmailsUniqueIgnoringCase ==
    /\ \A i, j \in 1..Len(accounts) :
          ToLowerCase(accounts[i].email) = ToLowerCase(accounts[j].email) => i = j
    /\ (last.op = "register" /\ last.taken) =>
          /\ last.code = BAD_REQUEST
          /\ last.text = "User already exists, please login!"

====
